---- MODULE Spec2Model ----
(***************************************************************************)
(* Model of the search route src/src/app/api/search/route.ts: the POST     *)
(* handler and the four functions it awaits (generateSearchQueries,        *)
(* searchGoogle, extractContent, synthesizeInformation).                   *)
(*                                                                         *)
(* Representation of JavaScript values:                                    *)
(*  - a string the code takes apart (question, query, title, url,          *)
(*    snippet) is a sequence of one-character strings;                     *)
(*  - a string the code only passes on (answer, error message) is a        *)
(*    string;                                                              *)
(*  - `undefined` is the sentinel Undefined, a sequence no string equals;  *)
(*  - page text handled by extractContent is a sequence of runs            *)
(*    [c |-> character, n |-> repetitions], so that texts longer than the  *)
(*    4000-character limit can be enumerated.                              *)
(***************************************************************************)
EXTENDS Integers, Sequences, FiniteSets, TLC

VARIABLES pc, request, query, searchQueries, qi, allSources, si,
          sourceTexts, citations, result, response, trace,
          arg, ret

vars == <<pc, request, query, searchQueries, qi, allSources, si,
          sourceTexts, citations, result, response, trace,
          arg, ret>>

handlerVars == <<request, query, searchQueries, qi, allSources, si,
                 sourceTexts, citations, result, response, trace>>

(* ---------------------------------------------------------------------- *)
(* Bounds of the inputs                                                    *)
(* ---------------------------------------------------------------------- *)
MaxLen == 4
MaxContainers == 9
MaxRuns == 3
MaxParas == 2
MaxLines == 2
MaxResults == 3

(* ---------------------------------------------------------------------- *)
(* JavaScript strings                                                      *)
(* ---------------------------------------------------------------------- *)
Undefined == <<"#undefined">>

Truthy(v) == v # Undefined /\ v # <<>>

IsSpace(c) == c \in {" ", "\n", "\t"}

Min(a, b) == IF a <= b THEN a ELSE b

RECURSIVE TrimStart(_)
TrimStart(s) ==
  IF s = <<>> THEN <<>>
  ELSE IF IsSpace(Head(s)) THEN TrimStart(Tail(s)) ELSE s

RECURSIVE TrimEnd(_)
TrimEnd(s) ==
  IF s = <<>> THEN <<>>
  ELSE IF IsSpace(s[Len(s)]) THEN TrimEnd(SubSeq(s, 1, Len(s) - 1)) ELSE s

Trim(s) == TrimEnd(TrimStart(s))

StartsWith(s, p) == Len(s) >= Len(p) /\ SubSeq(s, 1, Len(p)) = p

RECURSIVE SplitLines(_)
SplitLines(s) ==
  IF \A i \in 1..Len(s) : s[i] # "\n" THEN <<s>>
  ELSE LET k == CHOOSE i \in 1..Len(s) :
                   s[i] = "\n" /\ \A j \in 1..(i - 1) : s[j] # "\n"
       IN <<SubSeq(s, 1, k - 1)>> \o SplitLines(SubSeq(s, k + 1, Len(s)))

\* The sequences over S of length at most n.
SeqsUpTo(S, n) == UNION {[1..k -> S] : k \in 0..n}

(* ---------------------------------------------------------------------- *)
(* generateSearchQueries                                                   *)
(* ---------------------------------------------------------------------- *)
\* A completion call either throws (transport or auth error, or no first
\* choice to read) or yields the first choice's content: null or a string.
CompletionError == [kind |-> "error"]
CompletionNull == [kind |-> "null"]
CompletionText(s) == [kind |-> "text", text |-> s]

KeepLine(q) == Trim(q) # <<>>

ParseQueries(content) == SelectSeq(SplitLines(content), KeepLine)

generateSearchQueries(q, completion) ==
  IF completion.kind = "error" THEN <<q>>
  ELSE IF completion.kind = "null" THEN <<q>>
  ELSE IF completion.text # <<>> THEN ParseQueries(completion.text)
  ELSE <<q>>

(* ---------------------------------------------------------------------- *)
(* searchGoogle                                                            *)
(* ---------------------------------------------------------------------- *)
\* A fetch either fails (network error, non-ok status, unreadable body) or
\* yields a page. A results page is the sequence of its div.g containers in
\* document order; of each container the code reads the text of its h3
\* (title), the href of its first anchor (undefined when absent) and the
\* text of its div.VwiC3b (snippet).
FetchFailed == [ok |-> FALSE]
FetchOk(p) == [ok |-> TRUE, page |-> p]

ResultLimit == 8

Http == <<"h", "t", "t", "p">>

Accepted(c) ==
  /\ Truthy(c.href)
  /\ StartsWith(c.href, Http)
  /\ Truthy(c.title)
  /\ Truthy(c.snippet)

ToResult(c) ==
  [title |-> Trim(c.title), url |-> Trim(c.href), snippet |-> Trim(c.snippet)]

ParseContainers(containers) ==
  LET kept == SelectSeq(containers, Accepted)
  IN [i \in 1..Len(kept) |-> ToResult(kept[i])]

searchGoogle(fetch) ==
  IF ~fetch.ok THEN <<>>
  ELSE LET results == ParseContainers(fetch.page)
       IN SubSeq(results, 1, Min(ResultLimit, Len(results)))

(* ---------------------------------------------------------------------- *)
(* extractContent                                                          *)
(* ---------------------------------------------------------------------- *)
\* Page text is a sequence of runs [c, n]: n >= 1 copies of character c.
\* A fetched page, after the unwanted elements are removed, is what the
\* queries of the code return on it: for each content selector, in the
\* order of contentSelectors, the number of elements it matches and their
\* combined text; and the texts of the p elements in document order.
Run(c, n) == [c |-> c, n |-> n]

ContentLimit == 4000

ParagraphMin == 50

NumSelectors == 7

RECURSIVE TLen(_)
TLen(t) == IF t = <<>> THEN 0 ELSE Head(t).n + TLen(Tail(t))

RECURSIVE TTrimStart(_)
TTrimStart(t) ==
  IF t = <<>> THEN <<>>
  ELSE IF IsSpace(Head(t).c) THEN TTrimStart(Tail(t)) ELSE t

RECURSIVE TTrimEnd(_)
TTrimEnd(t) ==
  IF t = <<>> THEN <<>>
  ELSE IF IsSpace(t[Len(t)].c) THEN TTrimEnd(SubSeq(t, 1, Len(t) - 1)) ELSE t

TTrim(t) == TTrimEnd(TTrimStart(t))

\* The length of the maximal whitespace block t starts with, in runs.
RECURSIVE WsPrefix(_)
WsPrefix(t) ==
  IF t = <<>> \/ ~IsSpace(Head(t).c) THEN 0 ELSE 1 + WsPrefix(Tail(t))

\* .replace(/\s+/g, ' ')
RECURSIVE CollapseWhitespace(_)
CollapseWhitespace(t) ==
  IF t = <<>> THEN <<>>
  ELSE IF IsSpace(Head(t).c)
       THEN <<Run(" ", 1)>> \o CollapseWhitespace(SubSeq(t, WsPrefix(t) + 1, Len(t)))
       ELSE <<Head(t)>> \o CollapseWhitespace(Tail(t))

\* .replace(/\n\s*\n/g, '\n\n') on one maximal whitespace block b: the match
\* starts at the first line break of the block and, \s* being greedy, ends at
\* its last one.
CollapseBlock(b) ==
  LET nl == {i \in 1..Len(b) : b[i].c = "\n"}
  IN IF nl = {} THEN b
     ELSE LET first == CHOOSE i \in nl : \A j \in nl : i <= j
              last == CHOOSE i \in nl : \A j \in nl : j <= i
          IN IF first = last /\ b[first].n = 1 THEN b
             ELSE SubSeq(b, 1, first - 1) \o <<Run("\n", 2)>>
                    \o SubSeq(b, last + 1, Len(b))

RECURSIVE CollapseBlankLines(_)
CollapseBlankLines(t) ==
  IF t = <<>> THEN <<>>
  ELSE IF IsSpace(Head(t).c)
       THEN CollapseBlock(SubSeq(t, 1, WsPrefix(t)))
              \o CollapseBlankLines(SubSeq(t, WsPrefix(t) + 1, Len(t)))
       ELSE <<Head(t)>> \o CollapseBlankLines(Tail(t))

\* .slice(0, k)
RECURSIVE TSlice(_, _)
TSlice(t, k) ==
  IF t = <<>> \/ k <= 0 THEN <<>>
  ELSE IF Head(t).n >= k THEN <<Run(Head(t).c, k)>>
       ELSE <<Head(t)>> \o TSlice(Tail(t), k - Head(t).n)

CleanUpWithoutLimit(content) ==
  TTrim(CollapseBlankLines(CollapseWhitespace(content)))

CleanUp(content) ==
  TSlice(TTrim(CollapseBlankLines(CollapseWhitespace(content))), ContentLimit)

\* The index of the first selector that matches an element, 0 when none does.
FirstMatch(page) ==
  IF \A i \in 1..NumSelectors : page.sel[i].n = 0 THEN 0
  ELSE CHOOSE i \in 1..NumSelectors :
         page.sel[i].n > 0 /\ \A j \in 1..(i - 1) : page.sel[j].n = 0

SelectorContent(page) ==
  IF FirstMatch(page) = 0 THEN <<>> ELSE TTrim(page.sel[FirstMatch(page)].text)

Substantial(p) == TLen(p) > ParagraphMin

RECURSIVE JoinParagraphs(_)
JoinParagraphs(ps) ==
  IF ps = <<>> THEN <<>>
  ELSE IF Len(ps) = 1 THEN Head(ps)
  ELSE Head(ps) \o <<Run("\n", 2)>> \o JoinParagraphs(Tail(ps))

ParagraphContent(page) ==
  LET trimmed == [i \in 1..Len(page.paras) |-> TTrim(page.paras[i])]
  IN JoinParagraphs(SelectSeq(trimmed, Substantial))

extractContent(fetch) ==
  IF ~fetch.ok THEN <<>>
  ELSE LET content == SelectorContent(fetch.page)
       IN IF content # <<>> THEN CleanUp(content)
          ELSE CleanUp(ParagraphContent(fetch.page))

(* ---------------------------------------------------------------------- *)
(* POST and synthesizeInformation                                          *)
(* ---------------------------------------------------------------------- *)
\* pc is the await the handler is suspended at. trace records, in order,
\* every outbound call and delay the request has completed: the operation,
\* the index of the query or source it was made for (the length of a delay),
\* whether it succeeded, and what the awaiting code got back from it.
SearchDelayMs == 2000

ExtractDelayMs == 500

SynthesisError == "Error synthesizing information."

NoContent == "No content available"

ProcessError == "Failed to process search"

Event(op, n, ok, out) == [op |-> op, n |-> n, ok |-> ok, out |-> out]

NoRequest == [kind |-> "none"]
InvalidBody == [kind |-> "invalid"]
JsonBody(q) == [kind |-> "json", query |-> q]

NoResponse == [status |-> 0]

NoResult == [answer |-> "", citations |-> <<>>]

HandlerInit ==
  /\ request = NoRequest
  /\ query = Undefined
  /\ searchQueries = <<>>
  /\ qi = 1
  /\ allSources = <<>>
  /\ si = 1
  /\ sourceTexts = <<>>
  /\ citations = <<>>
  /\ result = NoResult
  /\ response = NoResponse
  /\ trace = <<>>

\* Inputs of the handler.
Question == <<"q", "?">>

Requests == {InvalidBody, JsonBody(Undefined), JsonBody(Question)}

HandlerLines == {<<"a">>, <<" ">>}

RECURSIVE JoinLines(_)
JoinLines(ls) ==
  IF Len(ls) = 1 THEN Head(ls)
  ELSE Head(ls) \o <<"\n">> \o JoinLines(Tail(ls))

ExpandCompletions ==
  {CompletionError, CompletionNull, CompletionText(<<>>)}
    \cup {CompletionText(JoinLines(ls)) :
            ls \in SeqsUpTo(HandlerLines, MaxLines) \ {<<>>}}

Url1 == Http \o <<"1">>
Url2 == Http \o <<"2">>

HandlerContainers ==
  { [title |-> <<"t">>, href |-> Url1, snippet |-> <<"s">>],
    [title |-> <<"t">>, href |-> Url2, snippet |-> <<" ">>] }

SearchFetches(room) ==
  {FetchFailed} \cup {FetchOk(p) : p \in SeqsUpTo(HandlerContainers, room)}

NoSelectors == [i \in 1..NumSelectors |-> [n |-> 0, text |-> <<>>]]

ArticlePage ==
  [sel |-> [NoSelectors EXCEPT ![1] = [n |-> 1, text |-> <<Run("a", 3)>>]],
   paras |-> <<>>]

EmptyPage == [sel |-> NoSelectors, paras |-> <<>>]

ExtractFetches == {FetchFailed, FetchOk(ArticlePage), FetchOk(EmptyPage)}

SynthCompletions ==
  {CompletionError, CompletionNull, CompletionText("An answer.")}

AfterFirstResults(i, queries, sources) ==
  IF sources # <<>> THEN "extract"
  ELSE IF i <= Len(queries) THEN "search" ELSE "synthesize"

\* Where the handler goes once query number i and the sources so far are
\* settled: the next search, or synthesizeInformation's loop over the sources.
AfterSearch(i, queries, sources) ==
  IF i <= Len(queries) THEN "search"
  ELSE IF sources # <<>> THEN "extract" ELSE "synthesize"

\* const { query } = await request.json()
ReadRequest ==
  /\ pc = "request"
  /\ \E r \in Requests :
       /\ request' = r
       /\ IF r.kind = "invalid"
          THEN /\ response' = [status |-> 500, body |-> [error |-> ProcessError]]
               /\ pc' = "done"
               /\ query' = query
          ELSE /\ query' = r.query
               /\ pc' = "expand"
               /\ response' = response
  /\ UNCHANGED <<searchQueries, qi, allSources, si, sourceTexts, citations,
                 result, trace, arg, ret>>

\* const searchQueries = await generateSearchQueries(query)
Expand ==
  /\ pc = "expand"
  /\ \E c \in ExpandCompletions :
       LET queries == generateSearchQueries(query, c)
       IN /\ searchQueries' = queries
          /\ trace' = Append(trace, Event("expand", 0, c.kind # "error", queries))
          /\ pc' = AfterSearch(1, queries, <<>>)
  /\ UNCHANGED <<request, query, qi, allSources, si, sourceTexts, citations,
                 result, response, arg, ret>>

SearchPropagatingFailure ==
  /\ pc = "search"
  /\ \E f \in SearchFetches(MaxResults - Len(allSources)) :
       LET results == searchGoogle(f)
       IN /\ allSources' = allSources \o results
          /\ trace' = Append(trace, Event("search", qi, f.ok, results))
          /\ IF f.ok
             THEN pc' = "searchDelay" /\ response' = response
             ELSE /\ pc' = "done"
                  /\ response' = [status |-> 500, body |-> [error |-> ProcessError]]
  /\ UNCHANGED <<request, query, searchQueries, qi, si, sourceTexts, citations,
                 result, arg, ret>>

\* const results = await searchGoogle(searchQuery); allSources.push(...results)
Search ==
  /\ pc = "search"
  /\ \E f \in SearchFetches(MaxResults - Len(allSources)) :
       LET results == searchGoogle(f)
       IN /\ allSources' = allSources \o results
          /\ trace' = Append(trace, Event("search", qi, f.ok, results))
  /\ pc' = "searchDelay"
  /\ UNCHANGED <<request, query, searchQueries, qi, si, sourceTexts, citations,
                 result, response, arg, ret>>

\* await new Promise(resolve => setTimeout(resolve, 2000))
SearchDelay ==
  /\ pc = "searchDelay"
  /\ trace' = Append(trace, Event("delay", SearchDelayMs, TRUE, <<>>))
  /\ qi' = qi + 1
  /\ pc' = AfterSearch(qi + 1, searchQueries, allSources)
  /\ UNCHANGED <<request, query, searchQueries, allSources, si, sourceTexts,
                 citations, result, response, arg, ret>>

ExtractCitingSnippets ==
  /\ pc = "extract"
  /\ \E f \in ExtractFetches :
       LET source == allSources[si]
           content == extractContent(f)
           withContent ==
             IF content # <<>>
             THEN Append(sourceTexts,
                         [label |-> "content", url |-> source.url, text |-> content])
             ELSE sourceTexts
       IN /\ sourceTexts' =
               IF Truthy(source.snippet)
               THEN Append(withContent, [label |-> "snippet", text |-> source.snippet])
               ELSE withContent
          /\ citations' =
               IF content # <<>> \/ Truthy(source.snippet)
               THEN Append(citations, source.url) ELSE citations
          /\ trace' = Append(trace, Event("extract", si, f.ok, content))
  /\ pc' = "extractDelay"
  /\ UNCHANGED <<request, query, searchQueries, qi, allSources, si, result,
                 response, arg, ret>>

\* const content = await extractContent(source.url), and the two pushes
Extract ==
  /\ pc = "extract"
  /\ \E f \in ExtractFetches :
       LET source == allSources[si]
           content == extractContent(f)
           withContent ==
             IF content # <<>>
             THEN Append(sourceTexts,
                         [label |-> "content", url |-> source.url, text |-> content])
             ELSE sourceTexts
       IN /\ sourceTexts' =
               IF Truthy(source.snippet)
               THEN Append(withContent, [label |-> "snippet", text |-> source.snippet])
               ELSE withContent
          /\ citations' =
               IF content # <<>> THEN Append(citations, source.url) ELSE citations
          /\ trace' = Append(trace, Event("extract", si, f.ok, content))
  /\ pc' = "extractDelay"
  /\ UNCHANGED <<request, query, searchQueries, qi, allSources, si, result,
                 response, arg, ret>>

ExtractDelayRetrying ==
  /\ pc = "extractDelay"
  /\ trace' = Append(trace, Event("delay", ExtractDelayMs, TRUE, <<>>))
  /\ si' = IF trace[Len(trace)].ok THEN si + 1 ELSE si
  /\ pc' = IF si' <= Len(allSources) THEN "extract" ELSE "synthesize"
  /\ UNCHANGED <<request, query, searchQueries, qi, allSources, sourceTexts,
                 citations, result, response, arg, ret>>

\* await new Promise(resolve => setTimeout(resolve, 500))
ExtractDelay ==
  /\ pc = "extractDelay"
  /\ trace' = Append(trace, Event("delay", ExtractDelayMs, TRUE, <<>>))
  /\ si' = si + 1
  /\ pc' = IF si + 1 <= Len(allSources) THEN "extract" ELSE "synthesize"
  /\ UNCHANGED <<request, query, searchQueries, qi, allSources, sourceTexts,
                 citations, result, response, arg, ret>>

SynthesizeKeepingCitations ==
  /\ pc = "synthesize"
  /\ \E c \in SynthCompletions :
       LET out == IF c.kind = "error"
                  THEN [answer |-> SynthesisError, citations |-> citations]
                  ELSE IF c.kind = "null"
                  THEN [answer |-> NoContent, citations |-> citations]
                  ELSE [answer |-> c.text, citations |-> citations]
       IN /\ result' = out
          /\ trace' = Append(trace, Event("synthesize", 0, c.kind # "error", out))
  /\ pc' = "respond"
  /\ UNCHANGED <<request, query, searchQueries, qi, allSources, si, sourceTexts,
                 citations, response, arg, ret>>

\* The completion call of synthesizeInformation and its return value.
Synthesize ==
  /\ pc = "synthesize"
  /\ \E c \in SynthCompletions :
       LET out == IF c.kind = "error"
                  THEN [answer |-> SynthesisError, citations |-> <<>>]
                  ELSE IF c.kind = "null"
                  THEN [answer |-> NoContent, citations |-> citations]
                  ELSE [answer |-> c.text, citations |-> citations]
       IN /\ result' = out
          /\ trace' = Append(trace, Event("synthesize", 0, c.kind # "error", out))
  /\ pc' = "respond"
  /\ UNCHANGED <<request, query, searchQueries, qi, allSources, si, sourceTexts,
                 citations, response, arg, ret>>

\* return NextResponse.json({ query, answer, citations, searchQueriesUsed })
Respond ==
  /\ pc = "respond"
  /\ response' = [status |-> 200,
                  body |-> [query |-> query,
                            answer |-> result.answer,
                            citations |-> result.citations,
                            searchQueriesUsed |-> searchQueries]]
  /\ pc' = "done"
  /\ UNCHANGED <<request, query, searchQueries, qi, allSources, si, sourceTexts,
                 citations, result, trace, arg, ret>>

NoCall == <<>>

Init ==
  /\ pc = "request"
  /\ HandlerInit
  /\ arg = NoCall
  /\ ret = NoCall

Next ==
  \/ ReadRequest
  \/ Expand
  \/ Search
  \/ SearchDelay
  \/ Extract
  \/ ExtractDelay
  \/ Synthesize
  \/ Respond

Spec == Init /\ [][Next]_vars

(* ---------------------------------------------------------------------- *)
(* The functions on their own, applied to inputs drawn from bounded sets   *)
(* ---------------------------------------------------------------------- *)
Chars == {"a", " ", "\n"}

ExpandInit ==
  /\ pc = "generateSearchQueries"
  /\ HandlerInit
  /\ \E q \in {Question, <<"a">>} :
       \/ arg = [question |-> q, completion |-> CompletionError]
       \/ arg = [question |-> q, completion |-> CompletionNull]
       \/ \E k \in 0..MaxLen : \E t \in [1..k -> Chars] :
            arg = [question |-> q, completion |-> CompletionText(t)]
  /\ ret = NoCall

ExpandCall ==
  /\ pc = "generateSearchQueries"
  /\ ret' = generateSearchQueries(arg.question, arg.completion)
  /\ pc' = "expanded"
  /\ UNCHANGED <<handlerVars, arg>>

SpecExpand == ExpandInit /\ [][ExpandCall]_vars

\* Result containers: every way a container can be read, on short pages;
\* three kinds of container on pages long enough to pass the result limit.
Titles == {<<"t">>, <<" ", "t">>, <<" ">>, <<>>}
Hrefs == {Url1, Url2 \o <<" ">>, <<"/", "x">>, <<>>, Undefined}
Snippets == {<<"s">>, <<"s", " ">>, <<" ">>, <<>>}

AllContainers ==
  {[title |-> t, href |-> h, snippet |-> n] : t \in Titles, h \in Hrefs, n \in Snippets}

LongPageContainers ==
  { [title |-> <<"t">>, href |-> Url1, snippet |-> <<"s">>],
    [title |-> <<"u">>, href |-> Url2, snippet |-> <<"s">>],
    [title |-> <<"t">>, href |-> <<"/", "x">>, snippet |-> <<"s">>] }

SearchInit ==
  /\ pc = "searchGoogle"
  /\ HandlerInit
  /\ \/ arg = FetchFailed
     \/ \E k \in 0..2 : \E p \in [1..k -> AllContainers] : arg = FetchOk(p)
     \/ \E k \in 0..MaxContainers : \E p \in [1..k -> LongPageContainers] :
          arg = FetchOk(p)
  /\ ret = NoCall

SearchCall ==
  /\ pc = "searchGoogle"
  /\ ret' = searchGoogle(arg)
  /\ pc' = "searched"
  /\ UNCHANGED <<handlerVars, arg>>

SpecSearch == SearchInit /\ [][SearchCall]_vars

\* Pages: (a) every pattern of selectors that match nothing, match an element
\* without text, or match an element with a text of their own, over every
\* short list of paragraphs; (b) every text in the first container;
\* (c) no container and every list of paragraphs.
RunLengths == {1, 2, ParagraphMin, ContentLimit - 1}

Runs == {Run(c, n) : c \in Chars, n \in RunLengths}

SelectorText(i) == <<Run("a", i)>>

SelectorPattern(k) ==
  [i \in 1..NumSelectors |->
     IF k[i] = "none" THEN [n |-> 0, text |-> <<>>]
     ELSE IF k[i] = "empty" THEN [n |-> 1, text |-> <<>>]
     ELSE [n |-> 1, text |-> SelectorText(i)]]

ShortParagraphs ==
  {<<>>, <<<<Run("a", 2)>>>>, <<<<Run("a", ParagraphMin), Run("b", 1)>>>>}

ParagraphRuns ==
  {Run("a", 1), Run("a", ParagraphMin), Run("a", ContentLimit - 1),
   Run(" ", 2), Run("\n", 2)}

ParagraphTexts == SeqsUpTo(ParagraphRuns, 2)

ExtractInit ==
  /\ pc = "extractContent"
  /\ HandlerInit
  /\ \/ arg = FetchFailed
     \/ \E k \in [1..NumSelectors -> {"none", "empty", "text"}] :
          \E ps \in ShortParagraphs :
            arg = FetchOk([sel |-> SelectorPattern(k), paras |-> ps])
     \/ \E k \in 0..MaxRuns : \E t \in [1..k -> Runs] :
          arg = FetchOk([sel |-> [NoSelectors EXCEPT ![1] = [n |-> 1, text |-> t]],
                         paras |-> <<>>])
     \/ \E k \in 0..MaxParas : \E ps \in [1..k -> ParagraphTexts] :
          arg = FetchOk([sel |-> NoSelectors, paras |-> ps])
  /\ ret = NoCall

ExtractCall ==
  /\ pc = "extractContent"
  /\ ret' = extractContent(arg)
  /\ pc' = "extracted"
  /\ UNCHANGED <<handlerVars, arg>>

SpecExtract == ExtractInit /\ [][ExtractCall]_vars

(* ---------------------------------------------------------------------- *)
(* Properties of the functions                                             *)
(* ---------------------------------------------------------------------- *)

\* C2: generateSearchQueries returns a non-empty sequence of queries for
\* every question and completion outcome, and exactly <<question>> when the
\* completion call fails.
C2_ExpandNonEmpty ==
  pc = "expanded" =>
    /\ ret # <<>>
    /\ arg.completion.kind = "error" => ret = <<arg.question>>

\* What the specification accepts as a result: title, url and snippet
\* non-empty after trimming, and a url with an HTTP scheme.
WellFormed(r) ==
  /\ r.title # <<>>
  /\ r.snippet # <<>>
  /\ StartsWith(r.url, Http)

AcceptedAfterTrimming(c) ==
  /\ Truthy(c.href)
  /\ StartsWith(c.href, Http)
  /\ Trim(c.title) # <<>>
  /\ Trim(c.snippet) # <<>>

\* C3: searchGoogle returns at most 8 entries, the first accepted containers
\* in document order, each with a non-empty trimmed title, a non-empty
\* trimmed snippet and a url that starts with http.
C3_SearchResultsWellFormed ==
  pc = "searched" /\ arg.ok =>
    LET kept == SelectSeq(arg.page, AcceptedAfterTrimming)
        first == SubSeq(kept, 1, Min(ResultLimit, Len(kept)))
    IN /\ Len(ret) <= ResultLimit
       /\ \A i \in 1..Len(ret) : WellFormed(ret[i])
       /\ ret = [i \in 1..Len(first) |-> ToResult(first[i])]

NoDoubleSpace(t) ==
  \A i \in 1..Len(t) :
    t[i].c = " " => t[i].n = 1 /\ (i < Len(t) => t[i + 1].c # " ")

\* The line breaks in the runs i..j of t.
RECURSIVE LineBreaks(_, _, _)
LineBreaks(t, i, j) ==
  IF i > j THEN 0
  ELSE (IF t[i].c = "\n" THEN t[i].n ELSE 0) + LineBreaks(t, i + 1, j)

\* No stretch of whitespace holds more than two line breaks.
AtMostOneBlankLine(t) ==
  \A i \in 1..Len(t) : \A j \in i..Len(t) :
    (\A k \in i..j : IsSpace(t[k].c)) => LineBreaks(t, i, j) <= 2

\* The text extractContent cleans up, before the clean-up.
RawContent(page) ==
  IF SelectorContent(page) # <<>> THEN SelectorContent(page)
  ELSE ParagraphContent(page)

\* C4: on both extraction paths the string extractContent returns has at
\* most 4000 characters, no run of two or more spaces and no more than one
\* consecutive blank line; on a failed fetch it is the empty string.
C4_ExtractBounded ==
  pc = "extracted" =>
    /\ TLen(ret) <= ContentLimit
    /\ NoDoubleSpace(ret)
    /\ AtMostOneBlankLine(ret)
    /\ ~arg.ok => ret = <<>>

\* A page on the paragraph path whose text is over the limit and holds a
\* blank line, returned cut to the limit.
C4_Witness ==
  /\ pc = "extracted"
  /\ arg.ok
  /\ FirstMatch(arg.page) = 0
  /\ TLen(RawContent(arg.page)) > ContentLimit
  /\ \E i \in 1..Len(RawContent(arg.page)) :
       IsSpace(RawContent(arg.page)[i].c) /\ RawContent(arg.page)[i].n >= 2
  /\ TLen(ret) = ContentLimit

\* The first selector, in priority order, that matches an element with
\* non-empty text; 0 when none does.
FirstNonEmptyMatch(page) ==
  LET hits == {i \in 1..NumSelectors :
                 page.sel[i].n > 0 /\ TTrim(page.sel[i].text) # <<>>}
  IN IF hits = {} THEN 0 ELSE CHOOSE i \in hits : \A j \in hits : i <= j

\* C9: the first selector in priority order that matches an element with
\* non-empty text supplies the content, also when a selector before it
\* matches an element with empty text; the paragraphs are used only when no
\* selector matches a non-empty element.
C9_FirstNonEmptySelectorWins ==
  pc = "extracted" /\ arg.ok =>
    LET i == FirstNonEmptyMatch(arg.page)
    IN ret = IF i # 0 THEN CleanUp(TTrim(arg.page.sel[i].text))
             ELSE CleanUp(ParagraphContent(arg.page))

(* ---------------------------------------------------------------------- *)
(* Properties of the handler                                               *)
(* ---------------------------------------------------------------------- *)
HasOp(op, e) == e.op = op

EventsOf(op) == SelectSeq(trace, LAMBDA e : HasOp(op, e))

Failed(op) == \E i \in 1..Len(trace) : trace[i].op = op /\ ~trace[i].ok

Succeeded(op) == \E i \in 1..Len(trace) : trace[i].op = op /\ trace[i].ok

Responded(status) == pc = "done" /\ response.status = status

Count(x, seq) == Cardinality({i \in 1..Len(seq) : seq[i] = x})

Urls(sources) == [i \in 1..Len(sources) |-> sources[i].url]

RECURSIVE Flatten(_)
Flatten(seqs) == IF seqs = <<>> THEN <<>> ELSE Head(seqs) \o Flatten(Tail(seqs))

IsPrefix(s, t) == Len(s) <= Len(t) /\ SubSeq(t, 1, Len(s)) = s

\* C1: a request whose JSON body has no query field is answered with HTTP
\* 500 and an error field, never with 200, whatever the outcome of the
\* completion, search and extraction calls.
C1_MissingQueryIs500 ==
  pc = "done" /\ request = JsonBody(Undefined) =>
    /\ response.status = 500
    /\ "error" \in DOMAIN response.body

\* The urls of the sources whose extraction returned non-empty content, in
\* the order of the sources.
UrlsWithContent(sources, extractions) ==
  LET index == [i \in 1..Len(sources) |-> i]
      HasContent(i) == extractions[i].out # <<>>
      kept == SelectSeq(index, HasContent)
  IN [j \in 1..Len(kept) |-> sources[kept[j]].url]

\* C5: when the completion call of synthesizeInformation succeeds, the
\* citation list it returns is exactly the urls, in input order, of the
\* sources whose extraction returned non-empty content.
C5_CitationsAreExtractedUrls ==
  Succeeded("synthesize") =>
    /\ Len(EventsOf("extract")) = Len(allSources)
    /\ result.citations = UrlsWithContent(allSources, EventsOf("extract"))

\* Synthesis succeeded over a source that was extracted and cited and a
\* source whose extraction was empty while its snippet went into the input.
C5_Witness ==
  /\ Succeeded("synthesize")
  /\ \E i, j \in 1..Len(allSources) :
       /\ EventsOf("extract")[i].out = <<>>
       /\ \E k \in 1..Len(sourceTexts) :
            sourceTexts[k] = [label |-> "snippet", text |-> allSources[i].snippet]
       /\ EventsOf("extract")[j].out # <<>>
       /\ i < j

\* C6: when the synthesis completion call fails the response is HTTP 200
\* with the fixed error text as answer, no citations (those accumulated are
\* discarded) and the expanded queries as searchQueriesUsed.
C6_SynthesisFailureDegrades ==
  pc = "done" /\ Failed("synthesize") =>
    /\ response.status = 200
    /\ response.body.answer = SynthesisError
    /\ response.body.citations = <<>>
    /\ response.body.searchQueriesUsed = EventsOf("expand")[1].out

\* The synthesis call failed after sources had been extracted and cited.
C6_Witness ==
  /\ Responded(200)
  /\ Failed("synthesize")
  /\ citations # <<>>
  /\ Len(response.body.searchQueriesUsed) > 1

\* C7 as stated: the citations of a response hold no url twice.
C7_NoDuplicateCitations ==
  Responded(200) =>
    \A i, j \in 1..Len(response.body.citations) :
      i # j => response.body.citations[i] # response.body.citations[j]

\* C7 as amended: every entry of the accumulated source list is fetched by
\* extractContent once, in order, so a url is cited at most as many times as
\* it occurs among the accumulated sources.
C7_EachSourceVisitedOnce ==
  /\ Len(EventsOf("extract")) <= Len(allSources)
  /\ \A i \in 1..Len(EventsOf("extract")) : EventsOf("extract")[i].n = i
  /\ Responded(200) =>
       /\ Len(EventsOf("extract")) = Len(allSources)
       /\ \A k \in 1..Len(response.body.citations) :
            Count(response.body.citations[k], response.body.citations)
              <= Count(response.body.citations[k], Urls(allSources))

\* Two expanded queries returned the same url and the response cites it twice.
C7_Witness ==
  /\ Responded(200)
  /\ Len(EventsOf("search")) = 2
  /\ \A i \in 1..2 : Urls(EventsOf("search")[i].out) = <<Url1>>
  /\ response.body.citations = <<Url1, Url1>>

\* C8: a request whose question can be read is answered with HTTP 200 and
\* the fields query (the question), answer, citations and searchQueriesUsed,
\* whatever fails; a failed search fetch contributes no source and the
\* results of the other queries are accumulated.
C8_ReadableQuestionIs200 ==
  pc = "done" /\ request.kind = "json" /\ request.query # Undefined =>
    /\ response.status = 200
    /\ DOMAIN response.body = {"query", "answer", "citations", "searchQueriesUsed"}
    /\ response.body.query = request.query
    /\ Len(EventsOf("search")) = Len(searchQueries)
    /\ \A i \in 1..Len(EventsOf("search")) :
         ~EventsOf("search")[i].ok => EventsOf("search")[i].out = <<>>
    /\ allSources =
         Flatten([i \in 1..Len(EventsOf("search")) |-> EventsOf("search")[i].out])

\* The first search failed, the second returned sources, an extraction
\* failed and the synthesis failed.
C8_Witness ==
  /\ Responded(200)
  /\ request.query = Question
  /\ Len(EventsOf("search")) = 2
  /\ ~EventsOf("search")[1].ok
  /\ allSources # <<>>
  /\ Failed("extract")
  /\ Failed("synthesize")

\* The calls of a request with nq expanded queries and ns accumulated
\* sources, in order.
ExpectedCalls(nq, ns) ==
  <<<<"expand", 0>>>>
    \o [k \in 1..(2 * nq) |->
          IF k % 2 = 1 THEN <<"search", (k + 1) \div 2>> ELSE <<"delay", SearchDelayMs>>]
    \o [k \in 1..(2 * ns) |->
          IF k % 2 = 1 THEN <<"extract", (k + 1) \div 2>> ELSE <<"delay", ExtractDelayMs>>]
    \o <<<<"synthesize", 0>>>>

Calls == [k \in 1..Len(trace) |-> <<trace[k].op, trace[k].n>>]

\* C10: the calls of a request happen one at a time in the order: one
\* expansion call; one search per expanded query in query order, each
\* followed by the search delay; then one extraction per accumulated source
\* in order, each followed by the extraction delay; then one synthesis call;
\* no call is repeated after a failure and no failure skips a later call.
\* (A request whose body cannot be parsed is answered without any call.)
C10_CallOrder ==
  /\ IsPrefix(Calls, ExpectedCalls(Len(searchQueries), Len(allSources)))
  /\ Responded(200) => Calls = ExpectedCalls(Len(searchQueries), Len(allSources))
  /\ Responded(500) => trace = <<>>

\* A request with two searches and two extractions in which the expansion
\* succeeded and the first search and the first extraction failed.
C10_Witness ==
  /\ Responded(200)
  /\ Len(EventsOf("search")) = 2
  /\ ~EventsOf("search")[1].ok
  /\ Len(EventsOf("extract")) >= 2
  /\ ~EventsOf("extract")[1].ok
  /\ Failed("synthesize")

====
